---- MODULE Spec2Model ----
(***************************************************************************)
(* One run of src/streamlit/app.py: the existence check of the data file,  *)
(* the load, the clean-up of the column names, the two sidebar filters,    *)
(* the filter of the frame, the empty guard and the tabs that compute a    *)
(* derived table (yearly mean, top 10 of the latest year, correlation).    *)
(*                                                                         *)
(* A column name is a sequence of one-character strings.  A row is a       *)
(* record with the pandas index label (idx) and the three columns the      *)
(* script reads.  A missing number is NaN, a missing status is NA.         *)
(***************************************************************************)
EXTENDS Integers, Sequences, FiniteSets, TLC

VARIABLES pc, file_exists, csv, columns, df, out, exception,
          years, statuses, touched, selected_years, selected_status,
          df_filtered, avg_life, latest_year, top10, corr

vars == <<pc, file_exists, csv, columns, df, out, exception,
          years, statuses, touched, selected_years, selected_status,
          df_filtered, avg_life, latest_year, top10, corr>>

----------------------------------------------------------------------------
(* Bounds of the inputs.                                                   *)

MaxHeaderChars == 5
MaxRows == 2
MaxBlockYears == 11
MaxLatestRows == 11

(* Program constants.                                                      *)
DefaultYears == 10
TopN == 10
MinPeriods == 1

(* The markers of a missing number and of a missing text.  Every number   *)
(* of the data is 0 or more.                                               *)
NaN == -1
NA == "<NA>"

----------------------------------------------------------------------------
(* Column names: str.strip().str.lower().str.replace(" ", "_")             *)
(*                                       .str.replace("-", "_")            *)

Whitespace == {" ", "\t", "\n", "\r", "\f"}

UpperCase == <<"A","B","C","D","E","F","G","H","I","J","K","L","M",
               "N","O","P","Q","R","S","T","U","V","W","X","Y","Z">>
LowerCase == <<"a","b","c","d","e","f","g","h","i","j","k","l","m",
               "n","o","p","q","r","s","t","u","v","w","x","y","z">>

ToLower ==
    [c \in {UpperCase[i] : i \in 1..26} |->
        LowerCase[CHOOSE i \in 1..26 : UpperCase[i] = c]]

lower_char(c) == IF c \in DOMAIN ToLower THEN ToLower[c] ELSE c

RECURSIVE lstrip(_)
lstrip(s) ==
    IF s = <<>> THEN <<>>
    ELSE IF Head(s) \in Whitespace THEN lstrip(Tail(s)) ELSE s

RECURSIVE rstrip(_)
rstrip(s) ==
    IF s = <<>> THEN <<>>
    ELSE IF s[Len(s)] \in Whitespace THEN rstrip(SubSeq(s, 1, Len(s) - 1)) ELSE s

strip(s) == rstrip(lstrip(s))

lower(s) == [i \in 1..Len(s) |-> lower_char(s[i])]

replace(s, old, new) == [i \in 1..Len(s) |-> IF s[i] = old THEN new ELSE s[i]]

replace_hyphen_by_space(s) == replace(s, "-", " ")

replace_hyphen(s) == replace(s, "-", "_")

clean_name(s) == replace_hyphen(replace(lower(strip(s)), " ", "_"))

clean_columns(cols) == [i \in 1..Len(cols) |-> clean_name(cols[i])]

----------------------------------------------------------------------------
(* The inputs: the file, its header and its rows.                          *)

Alphabet == {" ", "\t", "A", "a", "-"}

(* The text s cut into names behind the places of C.                       *)
RECURSIVE split_at(_, _)
split_at(s, C) ==
    IF C = {} THEN <<s>>
    ELSE LET c == CHOOSE x \in C : \A y \in C : y <= x
         IN  split_at(SubSeq(s, 1, c), C \ {c}) \o <<SubSeq(s, c + 1, Len(s))>>

(* read_csv makes the raw names of a header distinct.                      *)
DistinctNames(h) == \A i, j \in 1..Len(h) : h[i] = h[j] => i = j

YearName == <<"Y","e","a","r">>
StatusName == <<"S","t","a","t","u","s">>
LifeName == <<"L","i","f","e"," ","e","x","p","e","c","t","a","n","c","y"," ">>
DataHeader == <<YearName, StatusName, LifeName>>

year_col == <<"y","e","a","r">>
status_col == <<"s","t","a","t","u","s">>
life_col == <<"l","i","f","e","_","e","x","p","e","c","t","a","n","c","y">>

Statuses == {"Developed", "Developing"}

FreeRow == [year : {1, 2, NaN}, status : Statuses \cup {NA}, life_expectancy : {1, 2, NaN}]

FreeData == UNION {[1..n -> FreeRow] : n \in 0..MaxRows}

(* One row per year, m distinct years.                                     *)
YearsBlock(m) ==
    [i \in 1..m |-> [year |-> i, status |-> "Developing", life_expectancy |-> 40 + i]]

(* The values 10, 30, 20, 30, 5 in units of five.                          *)
TieValues == <<2, 6, 4, 6, 1>>

(* One row of an earlier year, then k rows of the latest year with ties.   *)
LatestBlock(k) ==
    <<[year |-> 1, status |-> "Developing", life_expectancy |-> 9]>> \o
    [i \in 1..k |-> [year |-> 2,
                     status |-> IF i = 3 THEN "Developed" ELSE "Developing",
                     life_expectancy |-> TieValues[((i - 1) % 5) + 1]]]

(* The same, with two missing values in the latest year.                   *)
LatestBlockNaN(k) ==
    [i \in 1..(k + 1) |->
        IF i \in {3, 7}
        THEN [LatestBlock(k)[i] EXCEPT !.life_expectancy = NaN]
        ELSE LatestBlock(k)[i]]

(* Years with a value and a missing value, with missing values only, and   *)
(* rows without a year or without a status.                                *)
MixedBlock ==
    <<[year |-> 1, status |-> "Developing", life_expectancy |-> 7],
      [year |-> 1, status |-> "Developed", life_expectancy |-> NaN],
      [year |-> 2, status |-> "Developing", life_expectancy |-> NaN],
      [year |-> 3, status |-> "Developed", life_expectancy |-> 7],
      [year |-> NaN, status |-> "Developing", life_expectancy |-> 5],
      [year |-> 3, status |-> "Developing", life_expectancy |-> 8],
      [year |-> 3, status |-> NA, life_expectancy |-> 6]>>

DataSets ==
    FreeData
    \cup {YearsBlock(m) : m \in (MaxBlockYears - 2)..MaxBlockYears}
    \cup {LatestBlock(k) : k \in (MaxLatestRows - 2)..MaxLatestRows}
    \cup {LatestBlockNaN(k) : k \in (MaxLatestRows - 2)..MaxLatestRows}
    \cup {MixedBlock}

NoFile == [header |-> <<>>, rows |-> <<>>]

NoMean == [num |-> 0, den |-> 0]
NoCorr == [sign |-> 0, num2 |-> 0, den |-> 0]

Init ==
    /\ pc = "check_file"
    /\ \/ /\ file_exists = TRUE
          /\ csv \in [header : {DataHeader}, rows : DataSets]
       \/ (* a header of at most MaxHeaderChars characters in all: one     *)
          (* name or several, none empty                                   *)
          /\ file_exists = TRUE
          /\ \E n \in 1..MaxHeaderChars :
                \E s \in [1..n -> Alphabet], C \in SUBSET (1..(n - 1)) :
                    /\ DistinctNames(split_at(s, C))
                    /\ csv = [header |-> split_at(s, C), rows |-> <<>>]
       \/ file_exists = FALSE /\ csv = NoFile
    /\ columns = <<>>
    /\ df = <<>>
    /\ out = <<>>
    /\ exception = "none"
    /\ years = <<>>
    /\ statuses = <<>>
    /\ touched = FALSE
    /\ selected_years = {}
    /\ selected_status = {}
    /\ df_filtered = <<>>
    /\ avg_life = <<>>
    /\ latest_year = NaN
    /\ top10 = <<>>
    /\ corr = <<>>

----------------------------------------------------------------------------
(* Lines 19-22: the existence check.                                       *)
CheckFile ==
    /\ pc = "check_file"
    /\ IF file_exists
       THEN /\ pc' = "load"
            /\ out' = out
       ELSE /\ pc' = "stopped"
            /\ out' = out \o <<"error", "info">>
    /\ UNCHANGED <<file_exists, csv, columns, df, exception, years, statuses,
                   touched, selected_years, selected_status, df_filtered,
                   avg_life, latest_year, top10, corr>>

(* Lines 25-29: read_csv gives the rows a RangeIndex.                      *)
read_csv(file) ==
    [i \in 1..Len(file.rows) |->
        [idx |-> i - 1,
         year |-> file.rows[i].year,
         status |-> file.rows[i].status,
         life_expectancy |-> file.rows[i].life_expectancy]]

LoadData ==
    /\ pc = "load"
    /\ df' = read_csv(csv)
    /\ columns' = csv.header
    /\ pc' = "clean"
    /\ UNCHANGED <<file_exists, csv, out, exception, years, statuses,
                   touched, selected_years, selected_status, df_filtered,
                   avg_life, latest_year, top10, corr>>

(* Lines 32-39: the names are replaced and the run goes on.                *)
CleanColumns ==
    /\ pc = "clean"
    /\ columns' = clean_columns(columns)
    /\ out' = out \o <<"success">>
    /\ pc' = "sidebar"
    /\ UNCHANGED <<file_exists, csv, df, exception, years, statuses,
                   touched, selected_years, selected_status, df_filtered,
                   avg_life, latest_year, top10, corr>>

----------------------------------------------------------------------------
(* Helpers on frames (sequences of rows).                                  *)

Range(s) == {s[i] : i \in 1..Len(s)}

Min(S) == CHOOSE x \in S : \A y \in S : x <= y

RECURSIVE sorted(_)
sorted(S) == IF S = {} THEN <<>> ELSE <<Min(S)>> \o sorted(S \ {Min(S)})

StatusRank(s) == IF s = "Developed" THEN 1 ELSE IF s = "Developing" THEN 2 ELSE 3

RECURSIVE sorted_text(_)
sorted_text(S) ==
    IF S = {} THEN <<>>
    ELSE LET m == CHOOSE x \in S : \A y \in S : StatusRank(x) <= StatusRank(y)
         IN  <<m>> \o sorted_text(S \ {m})

(* Line 44: sorted(df["year"].dropna().unique())                           *)
year_options_with_nan(frame) == sorted({frame[i].year : i \in 1..Len(frame)})

year_options(frame) == sorted({frame[i].year : i \in 1..Len(frame)} \ {NaN})

(* Line 45: sorted(df["status"].dropna().unique())                         *)
status_options(frame) == sorted_text({frame[i].status : i \in 1..Len(frame)} \ {NA})

(* Line 50: years[-10:] if len(years) >= 10 else years                     *)
default_years_first(ys) ==
    IF Len(ys) >= DefaultYears THEN SubSeq(ys, 1, DefaultYears) ELSE ys

default_years(ys) ==
    IF Len(ys) >= DefaultYears
    THEN SubSeq(ys, Len(ys) - DefaultYears + 1, Len(ys))
    ELSE ys

(* Line 56: default=statuses                                               *)
default_status(sts) == sts

(* Lines 44-57.  df["year"] raises KeyError when the column is absent.     *)
(* The one header of the inputs that has year and status is DataHeader.    *)
Sidebar ==
    /\ pc = "sidebar"
    /\ IF year_col \notin Range(columns) \/ status_col \notin Range(columns)
       THEN /\ exception' = "KeyError"
            /\ pc' = "crashed"
            /\ UNCHANGED <<years, statuses, touched, selected_years, selected_status>>
       ELSE /\ years' = year_options(df)
            /\ statuses' = status_options(df)
            /\ \/ /\ touched' = FALSE
                  /\ selected_years' = Range(default_years(years'))
                  /\ selected_status' = Range(default_status(statuses'))
               \/ /\ touched' = TRUE
                  /\ selected_years' \in SUBSET Range(years')
                  /\ selected_status' \in SUBSET Range(statuses')
            /\ pc' = "filter"
            /\ exception' = exception
    /\ UNCHANGED <<file_exists, csv, columns, df, out, df_filtered,
                   avg_life, latest_year, top10, corr>>

isin_or_no_selection(v, values) == values = {} \/ v \in values

(* Series.isin(values)                                                     *)
isin(v, values) == v \in values

or_mask(a, b) == [i \in 1..Len(a) |-> a[i] \/ b[i]]

and_mask(a, b) == [i \in 1..Len(a) |-> a[i] /\ b[i]]

(* df[mask]: the rows whose mask entry is true, in order.                  *)
RECURSIVE boolean_index(_, _)
boolean_index(frame, mask) ==
    IF frame = <<>> THEN <<>>
    ELSE (IF Head(mask) THEN <<Head(frame)>> ELSE <<>>)
         \o boolean_index(Tail(frame), Tail(mask))

(* Lines 59-62.                                                            *)
filter_frame(frame, sel_years, sel_status) ==
    boolean_index(frame,
        and_mask([i \in 1..Len(frame) |-> isin(frame[i].year, sel_years)],
                 [i \in 1..Len(frame) |-> isin(frame[i].status, sel_status)]))

Filter ==
    /\ pc = "filter"
    /\ df_filtered' = filter_frame(df, selected_years, selected_status)
    /\ pc' = "guard"
    /\ UNCHANGED <<file_exists, csv, columns, df, out, exception, years, statuses,
                   touched, selected_years, selected_status,
                   avg_life, latest_year, top10, corr>>

EmptyGuardWithoutStop ==
    /\ pc = "guard"
    /\ out' = (IF df_filtered = <<>> THEN out \o <<"warning">> ELSE out)
    /\ pc' = "tab1"
    /\ UNCHANGED <<file_exists, csv, columns, df, exception, years, statuses,
                   touched, selected_years, selected_status, df_filtered,
                   avg_life, latest_year, top10, corr>>

(* Lines 64-66.                                                            *)
EmptyGuard ==
    /\ pc = "guard"
    /\ IF df_filtered = <<>>
       THEN /\ out' = out \o <<"warning">>
            /\ pc' = "stopped"
       ELSE /\ out' = out
            /\ pc' = "tab1"
    /\ UNCHANGED <<file_exists, csv, columns, df, exception, years, statuses,
                   touched, selected_years, selected_status, df_filtered,
                   avg_life, latest_year, top10, corr>>

----------------------------------------------------------------------------
(* The derived tables of the tabs.                                         *)

RECURSIVE Sum(_)
Sum(s) == IF s = <<>> THEN 0 ELSE Head(s) + Sum(Tail(s))

(* The values of one column of a frame, in row order.                      *)
column(frame, name) == [i \in 1..Len(frame) |-> frame[i][name]]

dropna(values) == SelectSeq(values, LAMBDA v : v # NaN)

fillna_zero(values) == [i \in 1..Len(values) |-> IF values[i] = NaN THEN 0 ELSE values[i]]

(* Series.mean(): missing values are skipped; no value left gives NaN.     *)
(* The mean is the exact fraction num / den.                               *)
mean_of(values) ==
    IF values = <<>> THEN NoMean
    ELSE [num |-> Sum(values), den |-> Len(values)]

mean_nan_as_zero(values) == mean_of(fillna_zero(values))

mean(values) == mean_of(dropna(values))

(* Line 84: df_filtered.groupby("year")["life_expectancy"].mean()          *)
(* The group keys are the non-missing years, sorted.                       *)
groupby_year_mean(frame) ==
    LET keys == sorted({frame[i].year : i \in 1..Len(frame)} \ {NaN})
    IN  [k \in 1..Len(keys) |->
            [year |-> keys[k],
             mean |-> mean(column(SelectSeq(frame, LAMBDA r : r.year = keys[k]),
                                  "life_expectancy"))]]

Tab1 ==
    /\ pc = "tab1"
    /\ avg_life' = groupby_year_mean(df_filtered)
    /\ pc' = "tab2"
    /\ UNCHANGED <<file_exists, csv, columns, df, out, exception, years, statuses,
                   touched, selected_years, selected_status, df_filtered,
                   latest_year, top10, corr>>

(* Series.max(): missing values are skipped; no value left gives NaN.      *)
series_max(values) ==
    LET S == Range(dropna(values))
    IN  IF S = {} THEN NaN ELSE CHOOSE x \in S : \A y \in S : y <= x

RECURSIVE insert_desc_last(_, _)
insert_desc_last(s, r) ==
    IF s = <<>> THEN <<r>>
    ELSE IF Head(s).life_expectancy > r.life_expectancy
         THEN <<Head(s)>> \o insert_desc_last(Tail(s), r)
         ELSE <<r>> \o s

(* Insert r behind the rows whose value is not smaller (order of ties is   *)
(* the order of appearance).                                               *)
RECURSIVE insert_desc(_, _)
insert_desc(s, r) ==
    IF s = <<>> THEN <<r>>
    ELSE IF Head(s).life_expectancy >= r.life_expectancy
         THEN <<Head(s)>> \o insert_desc(Tail(s), r)
         ELSE <<r>> \o s

RECURSIVE sort_desc_from(_, _)
sort_desc_from(acc, s) ==
    IF s = <<>> THEN acc ELSE sort_desc_from(insert_desc(acc, Head(s)), Tail(s))

(* The rows with a value in descending order of life_expectancy.           *)
sort_desc(s) == sort_desc_from(<<>>, s)

head(s, n) == SubSeq(s, 1, IF n < Len(s) THEN n ELSE Len(s))

(* DataFrame.nlargest(n, "life_expectancy"), keep="first": the rows with  *)
(* a value in descending order, equal values in order of appearance, then  *)
(* the rows without a value, cut to n rows.                                *)
nlargest(n, frame) ==
    LET dropped == SelectSeq(frame, LAMBDA r : r.life_expectancy # NaN)
        nan_rows == SelectSeq(frame, LAMBDA r : r.life_expectancy = NaN)
    IN  IF n <= 0 THEN <<>>
        ELSE IF n >= Len(frame)
        THEN (* sort_values(ascending=False).head(n), missing values last  *)
             head(sort_desc(dropped) \o nan_rows, n)
        ELSE LET m == IF n < Len(dropped) THEN n ELSE Len(dropped)
                 ns == IF m = 0 THEN <<>>
                       ELSE LET kth_val == sort_desc(dropped)[m].life_expectancy
                            IN  SelectSeq(dropped,
                                          LAMBDA r : r.life_expectancy >= kth_val)
                 inds == head(sort_desc(ns), m)
             IN  head(inds \o nan_rows, n)

(* Lines 94-98.                                                            *)
Tab2 ==
    /\ pc = "tab2"
    /\ latest_year' = series_max(column(df_filtered, "year"))
    /\ top10' = nlargest(TopN, SelectSeq(df_filtered, LAMBDA r : r.year = latest_year'))
    /\ pc' = "tab3"
    /\ UNCHANGED <<file_exists, csv, columns, df, out, exception, years, statuses,
                   touched, selected_years, selected_status, df_filtered,
                   avg_life, corr>>

(* Lines 109-196: tabs 3 to 9 hand df_filtered to the plotting library.    *)
Tabs3to9 ==
    /\ pc = "tab3"
    /\ pc' = "tab10"
    /\ UNCHANGED <<file_exists, csv, columns, df, out, exception, years, statuses,
                   touched, selected_years, selected_status, df_filtered,
                   avg_life, latest_year, top10, corr>>

(* Line 200: the columns of numeric dtype among those of the rows.         *)
NumericColumns == <<"year", "life_expectancy">>

Sign(x) == IF x > 0 THEN 1 ELSE IF x < 0 THEN -1 ELSE 0

(* One entry of DataFrame.corr(): Pearson, over the rows where both        *)
(* columns have a value; a zero divisor gives a missing entry.  The entry  *)
(* cov / sqrt(vx * vy) is kept as its sign and its exact square            *)
(* num2 / den.                                                             *)
pearson_diag_one(frame, a, b) ==
    LET both == SelectSeq(frame, LAMBDA r : r[a] # NaN /\ r[b] # NaN)
        n == Len(both)
        x == column(both, a)
        y == column(both, b)
        cov == n * Sum([i \in 1..n |-> x[i] * y[i]]) - Sum(x) * Sum(y)
        vx == n * Sum([i \in 1..n |-> x[i] * x[i]]) - Sum(x) * Sum(x)
        vy == n * Sum([i \in 1..n |-> y[i] * y[i]]) - Sum(y) * Sum(y)
    IN  IF a = b THEN [sign |-> 1, num2 |-> 1, den |-> 1]
        ELSE IF n < MinPeriods \/ vx * vy = 0 THEN NoCorr
        ELSE [sign |-> Sign(cov), num2 |-> cov * cov, den |-> vx * vy]

pearson(frame, a, b) ==
    LET both == SelectSeq(frame, LAMBDA r : r[a] # NaN /\ r[b] # NaN)
        n == Len(both)
        x == column(both, a)
        y == column(both, b)
        sx == Sum(x)
        sy == Sum(y)
        sxx == Sum([i \in 1..n |-> x[i] * x[i]])
        syy == Sum([i \in 1..n |-> y[i] * y[i]])
        sxy == Sum([i \in 1..n |-> x[i] * y[i]])
        cov == n * sxy - sx * sy
        vx == n * sxx - sx * sx
        vy == n * syy - sy * sy
    IN  IF n < MinPeriods THEN NoCorr
        ELSE IF vx * vy = 0 THEN NoCorr
        ELSE [sign |-> Sign(cov), num2 |-> cov * cov, den |-> vx * vy]

(* Lines 200-203: numeric_df.corr()                                        *)
corr_matrix(frame) ==
    [i \in 1..Len(NumericColumns) |->
        [j \in 1..Len(NumericColumns) |->
            pearson(frame, NumericColumns[i], NumericColumns[j])]]

Tab10 ==
    /\ pc = "tab10"
    /\ corr' = corr_matrix(df_filtered)
    /\ pc' = "done"
    /\ UNCHANGED <<file_exists, csv, columns, df, out, exception, years, statuses,
                   touched, selected_years, selected_status, df_filtered,
                   avg_life, latest_year, top10>>

Next ==
    \/ CheckFile
    \/ LoadData
    \/ CleanColumns
    \/ Sidebar
    \/ Filter
    \/ EmptyGuard
    \/ Tab1
    \/ Tab2
    \/ Tabs3to9
    \/ Tab10

Spec == Init /\ [][Next]_vars

----------------------------------------------------------------------------
(* Vocabulary of the properties.                                           *)

(* The filter of lines 59-62 has run.                                      *)
Filtered ==
    \/ pc \in {"guard", "tab1", "tab2", "tab3", "tab10", "done"}
    \/ pc = "stopped" /\ file_exists

(* The names have been cleaned (lines 32-37 have run).                     *)
Cleaned == pc \notin {"check_file", "load", "clean"} /\ file_exists

Selected(r) == r.year \in selected_years /\ r.status \in selected_status

InOrder(frame) ==
    \A a, b \in 1..Len(frame) : a < b => frame[a].idx < frame[b].idx

DistinctYears(frame) == {frame[i].year : i \in 1..Len(frame)} \ {NaN}

DistinctStatuses(frame) == {frame[i].status : i \in 1..Len(frame)} \ {NA}

RECURSIVE SetSum(_, _)
SetSum(frame, I) ==
    IF I = {} THEN 0
    ELSE LET i == CHOOSE j \in I : TRUE
         IN  frame[i].life_expectancy + SetSum(frame, I \ {i})

(* C1: the filtered frame is exactly the rows whose year is selected and   *)
(* whose status is selected, each once, in the original order and          *)
(* unchanged; its years are years of the dataset.                          *)
C1_FilterExact ==
    Filtered =>
        /\ \A i \in 1..Len(df) :
              Selected(df[i]) <=> \E k \in 1..Len(df_filtered) : df_filtered[k] = df[i]
        /\ \A k \in 1..Len(df_filtered) : df_filtered[k] \in Range(df)
        /\ InOrder(df_filtered)
        /\ DistinctYears(df_filtered) \subseteq DistinctYears(df)

(* A row is kept, one is dropped for its year alone and one for its        *)
(* status alone.                                                           *)
C1_Witness ==
    /\ Filtered
    /\ \E i, j, k \in 1..Len(df) :
          /\ Selected(df[i])
          /\ df[j].year \in selected_years /\ df[j].status \notin selected_status
          /\ df[k].year \notin selected_years /\ df[k].status \in selected_status
    /\ Len(df_filtered) >= 2

FullSelection ==
    /\ selected_years = Range(years)
    /\ selected_status = Range(statuses)

(* C2, as stated: with every offered year and status selected the          *)
(* filtered frame is the whole dataset.                                    *)
C2_FullSelectionIsIdentity ==
    (Filtered /\ FullSelection) => df_filtered = df

(* C2: with every offered year and every offered status selected, the      *)
(* filtered frame is exactly the rows that have both a year and a status,  *)
(* in the original order; a row whose year or status is missing is         *)
(* dropped.                                                                *)
C2_FullSelectionKeepsComplete ==
    (Filtered /\ FullSelection) =>
        /\ \A i \in 1..Len(df) :
              (df[i].year # NaN /\ df[i].status # NA)
                  <=> \E k \in 1..Len(df_filtered) : df_filtered[k] = df[i]
        /\ \A k \in 1..Len(df_filtered) : df_filtered[k] \in Range(df)
        /\ InOrder(df_filtered)

C2_Witness ==
    /\ Filtered /\ FullSelection
    /\ \E i, j, k \in 1..Len(df) :
          /\ df[i].year = NaN /\ df[i].status # NA
          /\ df[j].status = NA /\ df[j].year # NaN
          /\ df[k] \in Range(df_filtered)

(* C3, as stated: with the default selections every distinct year and      *)
(* every distinct status is selected and no row is filtered out.           *)
C3_DefaultIsIdentity ==
    (Filtered /\ ~touched) =>
        /\ selected_years = DistinctYears(df)
        /\ selected_status = DistinctStatuses(df)
        /\ df_filtered = df

(* C3: with the default selections the selected years are the              *)
(* DefaultYears largest distinct years (all of them when there are fewer   *)
(* than DefaultYears) and the selected statuses are all the distinct       *)
(* statuses; no row is filtered out exactly when the dataset has at most   *)
(* DefaultYears distinct years and no row without a year or a status.      *)
C3_DefaultIsLastTenYears ==
    (Filtered /\ ~touched) =>
        LET Y == DistinctYears(df)
        IN  /\ selected_years =
                  {y \in Y : Cardinality({z \in Y : z > y}) < DefaultYears}
            /\ selected_status = DistinctStatuses(df)
            /\ (df_filtered = df) <=>
                  /\ Cardinality(Y) <= DefaultYears
                  /\ \A i \in 1..Len(df) : df[i].year # NaN /\ df[i].status # NA

C3_Witness ==
    /\ Filtered /\ ~touched
    /\ Cardinality(DistinctYears(df)) > DefaultYears
    /\ Len(df_filtered) = DefaultYears

(* C4: an empty selection of years or of statuses gives a filtered frame   *)
(* of zero rows without any exception, and the run then stops at the       *)
(* empty guard with its warning.                                           *)
C4_EmptySelectionEmptyResult ==
    (Filtered /\ (selected_years = {} \/ selected_status = {})) =>
        /\ df_filtered = <<>>
        /\ exception = "none"
        /\ pc \in {"guard", "stopped"}
        /\ pc = "stopped" => out = <<"success", "warning">>

C4_Witness ==
    /\ pc = "stopped" /\ file_exists
    /\ selected_years = {} /\ selected_status # {}
    /\ Len(df) > 0 /\ years # <<>>

ViewPcs == {"tab1", "tab2", "tab3", "tab10", "done"}

(* C5: a tab is reached, and a derived table computed, only when the file  *)
(* exists and the filtered frame has a row; without the file the run       *)
(* stops after its two messages, before the load and the filter; the       *)
(* maximum of the years is never taken over zero rows.                     *)
C5_ViewsBehindGuards ==
    /\ pc \in ViewPcs => file_exists /\ Len(df_filtered) > 0
    /\ (avg_life # <<>> \/ top10 # <<>> \/ corr # <<>> \/ latest_year # NaN)
          => file_exists /\ Len(df_filtered) > 0
    /\ pc \in {"tab3", "tab10", "done"} => latest_year # NaN
    /\ ~file_exists =>
          /\ pc \in {"check_file", "stopped"}
          /\ pc = "stopped" => out = <<"error", "info">>
          /\ df = <<>> /\ columns = <<>> /\ years = <<>> /\ df_filtered = <<>>
    /\ (pc = "stopped" /\ file_exists) => df_filtered = <<>> /\ avg_life = <<>>

C5_Witness ==
    /\ pc = "done"
    /\ Len(df_filtered) > 0 /\ Len(df_filtered) < Len(df)
    /\ latest_year # NaN /\ avg_life # <<>> /\ top10 # <<>>

HasCollision(cols) == \E i, j \in 1..Len(cols) : i # j /\ cols[i] = cols[j]

HasEmptyName(cols) == \E i \in 1..Len(cols) : cols[i] = <<>>

(* C6: when two raw names have the same clean name, or a clean name is     *)
(* empty, the clean-up fails with a schema error and the run does not go   *)
(* on with such names.                                                     *)
C6_SchemaErrorOnCollision ==
    (Cleaned /\ (HasCollision(columns) \/ HasEmptyName(columns))) =>
        exception = "SchemaError"

(* C7: once lines 32-37 have cleaned the names, cleaning the cleaned names *)
(* again changes nothing, and the cleaned names are as many as the raw     *)
(* names, each at the place of its raw name.                               *)
C7_CleanIsIdempotent ==
    pc = "sidebar" =>
        /\ clean_columns(columns) = columns
        /\ Len(columns) = Len(csv.header)
        /\ \A i \in 1..Len(columns) :
              /\ columns[i] = clean_name(csv.header[i])
              /\ \A k \in 1..Len(columns[i]) :
                    columns[i][k] \notin {" ", "-"} /\ lower_char(columns[i][k]) = columns[i][k]
              /\ columns[i] # <<>> =>
                    columns[i][1] \notin Whitespace /\ columns[i][Len(columns[i])] \notin Whitespace

C7_Witness ==
    /\ pc = "sidebar"
    /\ \E i \in 1..Len(columns) :
          /\ csv.header[i] = <<"A", " ", "-">>
          /\ columns[i] = <<"a", "_", "_">>
    /\ \E i \in 1..Len(columns) :
          /\ csv.header[i] = <<"\t", "-">>
          /\ columns[i] = <<"_">>

HasValue(r) == r.life_expectancy # NaN

(* r comes before s in the top 10: the larger value first, among equal     *)
(* values the earlier row first, rows without a value last.                *)
Before(r, s) ==
    \/ HasValue(r) /\ ~HasValue(s)
    \/ HasValue(r) /\ HasValue(s) /\ r.life_expectancy > s.life_expectancy
    \/ (HasValue(r) <=> HasValue(s)) /\ r.life_expectancy = s.life_expectancy
          /\ r.idx < s.idx

LatestRows ==
    {r \in Range(df_filtered) : \A q \in Range(df_filtered) : q.year <= r.year}

C9_YearlyMean ==
    pc \in {"tab2", "tab3", "tab10", "done"} =>
        /\ Len(avg_life) = Cardinality(DistinctYears(df_filtered))
        /\ \A y \in DistinctYears(df_filtered) :
              \E k \in 1..Len(avg_life) : avg_life[k].year = y
        /\ \A a, b \in 1..Len(avg_life) : a < b => avg_life[a].year < avg_life[b].year
        /\ \A k \in 1..Len(avg_life) :
              LET I == {i \in 1..Len(df_filtered) :
                           /\ df_filtered[i].year = avg_life[k].year
                           /\ HasValue(df_filtered[i])}
              IN  IF I = {}
                  THEN avg_life[k].mean = NoMean
                  ELSE /\ avg_life[k].mean.den > 0
                       /\ avg_life[k].mean.num * Cardinality(I)
                             = avg_life[k].mean.den * SetSum(df_filtered, I)
        /\ exception = "none"

(* A year with a value and a missing value, and a year without a value.    *)
C9_Witness ==
    /\ pc = "done"
    /\ \E k \in 1..Len(avg_life) : avg_life[k].mean = NoMean
    /\ \E k \in 1..Len(avg_life) :
          /\ avg_life[k].mean # NoMean
          /\ \E i \in 1..Len(df_filtered) :
                df_filtered[i].year = avg_life[k].year /\ ~HasValue(df_filtered[i])

IsOne(c) == c.sign = 1 /\ c.den # 0 /\ c.num2 = c.den

(* C10, as stated: every diagonal entry of the correlation matrix is 1.    *)
C10_DiagonalIsOne ==
    pc = "done" => \A i \in 1..Len(NumericColumns) : IsOne(corr[i][i])

(* C10: the diagonal entry of a column is 1 when the column has two        *)
(* different values among the filtered rows, and is missing when the       *)
(* column is constant, has a single value or has no value there.           *)
C10_DiagonalOneUnlessConstant ==
    pc = "done" =>
        \A i \in 1..Len(NumericColumns) :
            LET V == Range(column(df_filtered, NumericColumns[i])) \ {NaN}
            IN  IF Cardinality(V) >= 2
                THEN IsOne(corr[i][i])
                ELSE corr[i][i] = NoCorr

(* A constant column of several rows beside a column that varies.          *)
C10_Witness ==
    /\ pc = "done"
    /\ Len(df_filtered) >= 2
    /\ corr[1][1] = NoCorr
    /\ IsOne(corr[2][2])
    /\ Cardinality(Range(column(df_filtered, "year"))) = 1

====
